---- MODULE Spec2Model ----
(***************************************************************************)
(* Model of the cognitive agent loop of EAG_V2/Assignment_6/pydantic:      *)
(* perception.py (parse of the model text), decision_making.py (decide),   *)
(* action.py (dispatch) and main.py (CognitiveAgent.run).                  *)
(*                                                                         *)
(* Strings are sequences of tokens: a token is an indivisible run of       *)
(* characters ("ACTION:", "FUNCTION_CALL:", "add", "|", "5", " ").  The    *)
(* string operations of the code (strip, startswith, in, split) are        *)
(* defined on these sequences.  A float in [0,1] is an integer number of   *)
(* hundredths.  None is the empty sequence and a present value v is <<v>>. *)
(***************************************************************************)
EXTENDS Integers, Sequences, FiniteSets, TLC

\* Largest max_iterations an agent is configured with.
MaxIter == 2

None == <<>>
Some(v) == <<v>>

-----------------------------------------------------------------------------
(* String helpers (Python str methods on token sequences)                  *)

RECURSIVE lstrip(_)
lstrip(s) == IF s # <<>> /\ Head(s) = " " THEN lstrip(Tail(s)) ELSE s

RECURSIVE rstrip(_)
rstrip(s) ==
    IF s # <<>> /\ s[Len(s)] = " " THEN rstrip(SubSeq(s, 1, Len(s) - 1)) ELSE s

strip(s) == rstrip(lstrip(s))

startswith(s, tok) == Len(s) > 0 /\ s[1] = tok

contains(s, toks) == \E i \in 1..Len(s) : s[i] \in toks

\* Index of the first token of s that is in toks (0 when there is none).
find(s, toks) ==
    IF contains(s, toks)
    THEN CHOOSE i \in 1..Len(s) :
            s[i] \in toks /\ \A j \in 1..(i - 1) : s[j] \notin toks
    ELSE 0

\* s.split(sep): the pieces of s between the occurrences of the token sep.
RECURSIVE split(_, _)
split(s, sep) ==
    LET i == find(s, {sep})
    IN  IF i = 0 THEN <<s>>
        ELSE <<SubSeq(s, 1, i - 1)>> \o split(SubSeq(s, i + 1, Len(s)), sep)

\* line.split(":", 1)[1] for a line that starts with a tag token ending in ':'
after_tag(s) == Tail(s)

-----------------------------------------------------------------------------
(* perception.py: PerceptionLayer._parse_llm_response                      *)

\* float(): the numeric literals a CONFIDENCE line may carry, in hundredths.
FloatLiterals ==
    [t \in {"-0.2", "0.0", "0.1", "0.29", "0.3", "0.5", "0.59", "0.6", "0.8",
            "1.0", "1.5"} |->
        CASE t = "-0.2" -> 0 - 20
          [] t = "0.0"  -> 0
          [] t = "0.1"  -> 10
          [] t = "0.29" -> 29
          [] t = "0.3"  -> 30
          [] t = "0.5"  -> 50
          [] t = "0.59" -> 59
          [] t = "0.6"  -> 60
          [] t = "0.8"  -> 80
          [] t = "1.0"  -> 100
          [] t = "1.5"  -> 150]

is_float(s) == Len(s) = 1 /\ s[1] \in DOMAIN FloatLiterals

Min(a, b) == IF a < b THEN a ELSE b
Max(a, b) == IF a > b THEN a ELSE b

DefaultConfidence == 80

reasoning_type_of(s) ==
    IF Len(s) = 1 /\ s[1] \in {"arithmetic", "logic", "tool_use", "planning",
                               "verification", "final_answer"}
    THEN s[1] ELSE "logic"

InitialFields ==
    [reasoning_type |-> "logic", proposed_action |-> <<>>,
     confidence |-> DefaultConfidence, requires_verification |-> FALSE,
     error_detected |-> FALSE]

\* Variant: a prefixed clause is rebuilt as the fallback scan builds it,
\* the prefix followed directly by the stripped remainder.
parse_line_normalised(f, line) ==
    CASE startswith(line, "REASONING_TYPE:") ->
            [f EXCEPT !.reasoning_type = reasoning_type_of(strip(after_tag(line)))]
      [] startswith(line, "THOUGHT_PROCESS:") -> f
      [] startswith(line, "VERIFICATION:") ->
            [f EXCEPT !.requires_verification = TRUE]
      [] startswith(line, "ACTION:") ->
            LET action_text == strip(after_tag(line))
            IN  IF startswith(action_text, "FUNCTION_CALL:")
                   \/ startswith(action_text, "FINAL_ANSWER:")
                THEN [f EXCEPT !.proposed_action =
                                    <<Head(action_text)>> \o strip(Tail(action_text))]
                ELSE IF contains(action_text, {"FUNCTION_CALL", "FUNCTION_CALL:", "|"})
                THEN [f EXCEPT !.proposed_action =
                                    <<"FUNCTION_CALL:", " ">> \o action_text]
                ELSE [f EXCEPT !.proposed_action =
                                    <<"FINAL_ANSWER:", " ">> \o action_text]
      [] startswith(line, "CONFIDENCE:") ->
            LET v == strip(after_tag(line))
            IN  IF is_float(v)
                THEN [f EXCEPT !.confidence = Max(0, Min(100, FloatLiterals[v[1]]))]
                ELSE [f EXCEPT !.confidence = DefaultConfidence]
      [] startswith(line, "ERROR_CHECK:") ->
            [f EXCEPT !.error_detected = (strip(after_tag(line)) = <<"true">>)]
      [] OTHER -> f

\* Variant: a VERIFICATION line without content does not set the flag.
parse_line_verification_needs_text(f, line) ==
    CASE startswith(line, "REASONING_TYPE:") ->
            [f EXCEPT !.reasoning_type = reasoning_type_of(strip(after_tag(line)))]
      [] startswith(line, "THOUGHT_PROCESS:") -> f
      [] startswith(line, "VERIFICATION:") ->
            [f EXCEPT !.requires_verification = (strip(after_tag(line)) # <<>>)]
      [] startswith(line, "ACTION:") ->
            LET action_text == strip(after_tag(line))
            IN  IF startswith(action_text, "FUNCTION_CALL:")
                   \/ startswith(action_text, "FINAL_ANSWER:")
                THEN [f EXCEPT !.proposed_action = action_text]
                ELSE IF contains(action_text, {"FUNCTION_CALL", "FUNCTION_CALL:", "|"})
                THEN [f EXCEPT !.proposed_action =
                                    <<"FUNCTION_CALL:", " ">> \o action_text]
                ELSE [f EXCEPT !.proposed_action =
                                    <<"FINAL_ANSWER:", " ">> \o action_text]
      [] startswith(line, "CONFIDENCE:") ->
            LET v == strip(after_tag(line))
            IN  IF is_float(v)
                THEN [f EXCEPT !.confidence = Max(0, Min(100, FloatLiterals[v[1]]))]
                ELSE [f EXCEPT !.confidence = DefaultConfidence]
      [] startswith(line, "ERROR_CHECK:") ->
            [f EXCEPT !.error_detected = (strip(after_tag(line)) = <<"true">>)]
      [] OTHER -> f

\* Variant: the numeric confidence is taken as written.
parse_line_unclamped(f, line) ==
    CASE startswith(line, "REASONING_TYPE:") ->
            [f EXCEPT !.reasoning_type = reasoning_type_of(strip(after_tag(line)))]
      [] startswith(line, "THOUGHT_PROCESS:") -> f
      [] startswith(line, "VERIFICATION:") ->
            [f EXCEPT !.requires_verification = TRUE]
      [] startswith(line, "ACTION:") ->
            LET action_text == strip(after_tag(line))
            IN  IF startswith(action_text, "FUNCTION_CALL:")
                   \/ startswith(action_text, "FINAL_ANSWER:")
                THEN [f EXCEPT !.proposed_action = action_text]
                ELSE IF contains(action_text, {"FUNCTION_CALL", "FUNCTION_CALL:", "|"})
                THEN [f EXCEPT !.proposed_action =
                                    <<"FUNCTION_CALL:", " ">> \o action_text]
                ELSE [f EXCEPT !.proposed_action =
                                    <<"FINAL_ANSWER:", " ">> \o action_text]
      [] startswith(line, "CONFIDENCE:") ->
            LET v == strip(after_tag(line))
            IN  IF is_float(v)
                THEN [f EXCEPT !.confidence = FloatLiterals[v[1]]]
                ELSE [f EXCEPT !.confidence = DefaultConfidence]
      [] startswith(line, "ERROR_CHECK:") ->
            [f EXCEPT !.error_detected = (strip(after_tag(line)) = <<"true">>)]
      [] OTHER -> f

\* One round of the "for line in lines" loop.
parse_line(f, line) ==
    CASE startswith(line, "REASONING_TYPE:") ->
            [f EXCEPT !.reasoning_type = reasoning_type_of(strip(after_tag(line)))]
      [] startswith(line, "THOUGHT_PROCESS:") -> f
      [] startswith(line, "VERIFICATION:") ->
            [f EXCEPT !.requires_verification = TRUE]
      [] startswith(line, "ACTION:") ->
            LET action_text == strip(after_tag(line))
            IN  IF startswith(action_text, "FUNCTION_CALL:")
                   \/ startswith(action_text, "FINAL_ANSWER:")
                THEN [f EXCEPT !.proposed_action = action_text]
                ELSE IF contains(action_text, {"FUNCTION_CALL", "FUNCTION_CALL:", "|"})
                THEN [f EXCEPT !.proposed_action =
                                    <<"FUNCTION_CALL:", " ">> \o action_text]
                ELSE [f EXCEPT !.proposed_action =
                                    <<"FINAL_ANSWER:", " ">> \o action_text]
      [] startswith(line, "CONFIDENCE:") ->
            LET v == strip(after_tag(line))
            IN  IF is_float(v)
                THEN [f EXCEPT !.confidence = Max(0, Min(100, FloatLiterals[v[1]]))]
                ELSE [f EXCEPT !.confidence = DefaultConfidence]
      [] startswith(line, "ERROR_CHECK:") ->
            [f EXCEPT !.error_detected = (strip(after_tag(line)) = <<"true">>)]
      [] OTHER -> f

RECURSIVE parse_lines(_, _)
parse_lines(f, lines) ==
    IF lines = <<>> THEN f
    ELSE parse_lines(parse_line(f, Head(lines)), Tail(lines))

\* The fallback scan: the first line holding a call or an answer marker.
RECURSIVE fallback_action(_)
fallback_action(lines) ==
    IF lines = <<>> THEN <<>>
    ELSE LET line == Head(lines)
         IN  IF contains(line, {"FUNCTION_CALL:"})
             THEN <<"FUNCTION_CALL:">> \o strip(split(line, "FUNCTION_CALL:")[2])
             ELSE IF contains(line, {"FINAL_ANSWER:"})
             THEN <<"FINAL_ANSWER:">> \o strip(split(line, "FINAL_ANSWER:")[2])
             ELSE fallback_action(Tail(lines))

\* The stripped, non-blank lines of the response.
RECURSIVE nonblank_lines(_)
nonblank_lines(text) ==
    IF text = <<>> THEN <<>>
    ELSE IF strip(Head(text)) = <<>> THEN nonblank_lines(Tail(text))
    ELSE <<strip(Head(text))>> \o nonblank_lines(Tail(text))

\* Variant: only the tagged ACTION line is looked at, there is no fallback scan.
parse_llm_response_strict(text) ==
    LET lines  == nonblank_lines(text)
        f      == parse_lines(InitialFields, lines)
    IN  IF f.proposed_action = <<>> THEN None ELSE Some(f)

\* None when the parse raises ValueError, else Some(PerceptionOutput).
parse_llm_response(text) ==
    LET lines  == nonblank_lines(text)
        f      == parse_lines(InitialFields, lines)
        action == IF f.proposed_action # <<>> THEN f.proposed_action
                  ELSE fallback_action(lines)
    IN  IF action = <<>> THEN None
        ELSE Some([f EXCEPT !.proposed_action = action])

-----------------------------------------------------------------------------
(* decision_making.py: DecisionMakingLayer                                 *)

ConfidenceReject == 30
ConfidenceVerify == 60
ConfidenceFallback == 50

\* parts[0] of the proposed call: the text between the prefix and the first '|'
call_func_name(action) == strip(split(after_tag(action), "|")[1])

check_for_repeated_action(perception, mem) ==
    /\ startswith(perception.proposed_action, "FUNCTION_CALL:")
    /\ \E i \in 1..Len(mem.entries) :
          mem.entries[i].function_name = call_func_name(perception.proposed_action)

\* Variant: the error flag does not ask for verification.
should_request_verification_ignores_error(cfg, perception) ==
    IF ~cfg.enable_verification THEN FALSE
    ELSE IF perception.requires_verification THEN TRUE
    ELSE IF perception.confidence < ConfidenceVerify THEN TRUE
    ELSE FALSE

should_request_verification(cfg, perception) ==
    IF ~cfg.enable_verification THEN FALSE
    ELSE IF perception.requires_verification THEN TRUE
    ELSE IF perception.confidence < ConfidenceVerify THEN TRUE
    ELSE IF perception.error_detected THEN TRUE
    ELSE FALSE

generate_fallback_action(cfg, perception) ==
    IF ~cfg.enable_fallbacks THEN None
    ELSE IF perception.error_detected
    THEN Some(<<"FUNCTION_CALL:", " ", "continue_with_best_effort">>)
    ELSE IF perception.confidence < ConfidenceFallback
    THEN Some(<<"FUNCTION_CALL:", " ", "request_user_clarification">>)
    ELSE None

\* Variant: the limit is taken to be reached only once it is exceeded.
check_iteration_limit_strict(mem, max_iterations) ==
    mem.current_iteration > max_iterations

check_iteration_limit(mem, max_iterations) ==
    mem.current_iteration >= max_iterations

\* Variant: the confidence check comes before the error check.
evaluate_action_safety_confidence_first(perception, mem) ==
    LET repeated == check_for_repeated_action(perception, mem)
    IN  IF perception.confidence < ConfidenceReject
        THEN [is_safe |-> FALSE, reason |-> "confidence_too_low", repeated |-> repeated]
        ELSE IF perception.error_detected
        THEN [is_safe |-> TRUE, reason |-> "despite_error", repeated |-> repeated]
        ELSE [is_safe |-> TRUE, reason |-> "appears_safe", repeated |-> repeated]

\* Variant: a repeated tool name makes the action unsafe.
evaluate_action_safety_blocks_repeats(perception, mem) ==
    LET repeated == check_for_repeated_action(perception, mem)
    IN  IF repeated
        THEN [is_safe |-> FALSE, reason |-> "repeated_action", repeated |-> repeated]
        ELSE IF perception.error_detected
        THEN [is_safe |-> TRUE, reason |-> "despite_error", repeated |-> repeated]
        ELSE IF perception.confidence < ConfidenceReject
        THEN [is_safe |-> FALSE, reason |-> "confidence_too_low", repeated |-> repeated]
        ELSE [is_safe |-> TRUE, reason |-> "appears_safe", repeated |-> repeated]

\* The pair (is_safe, reason).  The repetition check only logs.
evaluate_action_safety(perception, mem) ==
    LET repeated == check_for_repeated_action(perception, mem)
    IN  IF perception.error_detected
        THEN [is_safe |-> TRUE, reason |-> "despite_error", repeated |-> repeated]
        ELSE IF perception.confidence < ConfidenceReject
        THEN [is_safe |-> FALSE, reason |-> "confidence_too_low", repeated |-> repeated]
        ELSE [is_safe |-> TRUE, reason |-> "appears_safe", repeated |-> repeated]

LimitAnswer == <<"FINAL_ANSWER:", " ", "Maximum iterations reached">>

\* The iteration ceiling was reached: completion is forced.
limit_decision ==
    [decision_type |-> "provide_answer", should_execute |-> TRUE,
     action_to_execute |-> Some(LimitAnswer),
     reasoning |-> "iteration_limit",
     continue_iteration |-> FALSE, fallback_action |-> None]

\* Variant: the confidence gate is applied to answers as well.
answer_decision_gated(perception) ==
    IF perception.confidence < ConfidenceReject
    THEN [decision_type |-> "handle_error", should_execute |-> FALSE,
          action_to_execute |-> None,
          reasoning |-> "cannot_execute",
          continue_iteration |-> FALSE,
          fallback_action |->
              Some(<<"FINAL_ANSWER:", " ", "Unable to complete task safely">>)]
    ELSE [decision_type |-> "provide_answer", should_execute |-> TRUE,
          action_to_execute |-> Some(perception.proposed_action),
          reasoning |-> "final_answer",
          continue_iteration |-> FALSE, fallback_action |-> None]

\* The proposal is an answer clause.
answer_decision(perception) ==
    [decision_type |-> "provide_answer", should_execute |-> TRUE,
     action_to_execute |-> Some(perception.proposed_action),
     reasoning |-> "final_answer",
     continue_iteration |-> FALSE, fallback_action |-> None]

\* Variant: the fallback of a rejection is the generated one.
rejected_decision_generated(cfg, perception) ==
    [decision_type |-> "handle_error", should_execute |-> FALSE,
     action_to_execute |-> None,
     reasoning |-> "cannot_execute",
     continue_iteration |-> FALSE,
     fallback_action |-> generate_fallback_action(cfg, perception)]

\* The tool proposal did not pass the safety gate.
rejected_decision(cfg, perception) ==
    [decision_type |-> "handle_error", should_execute |-> FALSE,
     action_to_execute |-> None,
     reasoning |-> "cannot_execute",
     continue_iteration |-> FALSE,
     fallback_action |->
         Some(<<"FINAL_ANSWER:", " ", "Unable to complete task safely">>)]

\* The tool proposal passed the safety gate: verification routing and the
\* generated fallback.
tool_decision(cfg, perception) ==
    [decision_type |->
         IF should_request_verification(cfg, perception)
         THEN "request_verification" ELSE "execute_tool",
     should_execute |-> TRUE,
     action_to_execute |-> Some(perception.proposed_action),
     reasoning |->
         IF should_request_verification(cfg, perception)
         THEN "requires_verification" ELSE "executing_tool",
     continue_iteration |-> TRUE,
     fallback_action |-> generate_fallback_action(cfg, perception)]

\* The proposed action has neither shape.
unknown_format_decision ==
    [decision_type |-> "handle_error", should_execute |-> FALSE,
     action_to_execute |-> None,
     reasoning |-> "cannot_parse_action_format",
     continue_iteration |-> FALSE,
     fallback_action |->
         Some(<<"FINAL_ANSWER:", " ", "Error in action format">>)]

decide(cfg, perception, mem, max_iterations) ==
    IF check_iteration_limit(mem, max_iterations)
    THEN limit_decision
    ELSE IF startswith(perception.proposed_action, "FINAL_ANSWER:")
    THEN answer_decision(perception)
    ELSE IF startswith(perception.proposed_action, "FUNCTION_CALL:")
    THEN IF ~evaluate_action_safety(perception, mem).is_safe
         THEN rejected_decision(cfg, perception)
         ELSE tool_decision(cfg, perception)
    ELSE unknown_format_decision

\* Python's truth value of an Optional[str]: None and "" are false.
truthy(opt) == opt # None /\ opt[1] # <<>>

\* Variant: an error decision without fallback lets the loop go on.
should_continue_errors_go_on(decision, mem) ==
    IF ~decision.continue_iteration THEN FALSE
    ELSE IF decision.decision_type = "provide_answer" THEN FALSE
    ELSE TRUE

should_continue(decision, mem) ==
    IF ~decision.continue_iteration THEN FALSE
    ELSE IF decision.decision_type = "provide_answer" THEN FALSE
    ELSE IF decision.decision_type = "handle_error" /\ ~truthy(decision.fallback_action)
    THEN FALSE
    ELSE TRUE

-----------------------------------------------------------------------------
(* action.py: ActionLayer                                                  *)

\* The registry's catalogue (list_tools): mcp_browser_server.add(a: int, b: int)
ToolCatalogue ==
    << [name |-> <<"add">>,
        properties |-> << [name |-> "a", type |-> "integer"],
                          [name |-> "b", type |-> "integer"] >>] >>

\* int(): the integer literals a parameter may carry.
IntLiterals ==
    [t \in {"1", "2", "3", "5", "8"} |->
        CASE t = "1" -> 1 [] t = "2" -> 2 [] t = "3" -> 3 [] t = "5" -> 5 [] t = "8" -> 8]

is_int(s) == Len(s) = 1 /\ s[1] \in DOMAIN IntLiterals

IntValue(n) == [kind |-> "int", int |-> n, raw |-> <<>>, bool |-> FALSE]
FloatValue(n) == [kind |-> "float", int |-> n, raw |-> <<>>, bool |-> FALSE]
StrValue(s) == [kind |-> "str", int |-> 0, raw |-> s, bool |-> FALSE]
BoolValue(b) == [kind |-> "bool", int |-> 0, raw |-> <<>>, bool |-> b]
ArrayValue(items) ==
    [kind |-> "array", int |-> 0, raw |-> <<>>, bool |-> FALSE, items |-> items]

\* [tool_name, params], or None when the clause lacks the call prefix (ValueError)
parse_function_call(action_string) ==
    IF ~startswith(action_string, "FUNCTION_CALL:") THEN None
    ELSE LET info0 == strip(after_tag(action_string))
             info  == IF \E prefix \in {"TOOL_USE:", "REASONING_TYPE:", "ACTION:"} :
                             startswith(info0, prefix)
                      THEN strip(after_tag(info0)) ELSE info0
             raw   == split(info, "|")
             parts == [i \in 1..Len(raw) |-> strip(raw[i])]
         IN  Some([tool_name |-> parts[1], params |-> Tail(parts)])

\* Variant: the positional value is passed on without conversion.
convert_parameter_raw(param_type, param_value) == StrValue(param_value)

\* s.strip(chars): the leading and trailing tokens of s that are in chars go.
RECURSIVE lstrip_chars(_, _)
lstrip_chars(s, chars) ==
    IF s # <<>> /\ Head(s) \in chars THEN lstrip_chars(Tail(s), chars) ELSE s

RECURSIVE rstrip_chars(_, _)
rstrip_chars(s, chars) ==
    IF s # <<>> /\ s[Len(s)] \in chars
    THEN rstrip_chars(SubSeq(s, 1, Len(s) - 1), chars) ELSE s

strip_chars(s, chars) == rstrip_chars(lstrip_chars(s, chars), chars)

\* s.replace(c, "") for every c of chars
remove_chars(s, chars) == SelectSeq(s, LAMBDA c : c \notin chars)

\* re.search(r'\[([^\]]+)\]', s): group 1 of the leftmost match, None without
\* a match.  A match starts at a '[' whose next ']' is at least two further.
search_bracketed(s) ==
    LET close(i) == CHOOSE j \in (i + 1)..Len(s) :
                       s[j] = "]" /\ \A k \in (i + 1)..(j - 1) : s[k] # "]"
        opens    == {i \in 1..Len(s) :
                       /\ s[i] = "["
                       /\ \E j \in (i + 1)..Len(s) : s[j] = "]"
                       /\ close(i) > i + 1}
    IN  IF opens = {} THEN None
        ELSE LET i == CHOOSE o \in opens : \A p \in opens : o <= p
             IN  Some(SubSeq(s, i + 1, close(i) - 1))

\* One element of an array value: int() first, then float() (in hundredths),
\* else the string itself.
convert_item(v) ==
    IF is_int(v) THEN IntValue(IntLiterals[v[1]])
    ELSE IF is_float(v) THEN FloatValue(FloatLiterals[v[1]])
    ELSE StrValue(v)

\* Variant: the list inside a keyed, brace-delimited text is not extracted.
convert_array_no_extract(param_value) ==
    LET s1     == strip(param_value)
        s3     == strip_chars(s1, {"[", "]", "{", "}"})
        s4     == remove_chars(s3, {"'", "\""})
        raw    == split(s4, ",")
        values == [i \in 1..Len(raw) |-> strip(raw[i])]
        kept   == SelectSeq(values, LAMBDA v : v # <<>> /\ ~contains(v, {"=", ":"}))
    IN  [i \in 1..Len(kept) |-> convert_item(kept[i])]

\* The array branch: the text of one positional value to a list of elements.
convert_array(param_value) ==
    LET s1     == strip(param_value)
        found  == search_bracketed(s1)
        s2     == IF contains(s1, {"{"}) /\ contains(s1, {":"}) /\ found # None
                  THEN found[1] ELSE s1
        s3     == strip_chars(s2, {"[", "]", "{", "}"})
        s4     == remove_chars(s3, {"'", "\""})
        raw    == split(s4, ",")
        values == [i \in 1..Len(raw) |-> strip(raw[i])]
        kept   == SelectSeq(values, LAMBDA v : v # <<>> /\ ~contains(v, {"=", ":"}))
    IN  [i \in 1..Len(kept) |-> convert_item(kept[i])]

\* The conversion of one positional value to the declared type.  A failed
\* int()/float() keeps the raw string.
convert_parameter(param_type, param_value) ==
    CASE param_type = "integer" ->
            IF is_int(param_value) THEN IntValue(IntLiterals[param_value[1]])
            ELSE StrValue(param_value)
      [] param_type = "number" ->
            IF is_int(param_value) THEN FloatValue(IntLiterals[param_value[1]])
            ELSE StrValue(param_value)
      [] param_type = "boolean" ->
            BoolValue(param_value \in {<<"true">>, <<"1">>, <<"yes">>})
      [] param_type = "array" -> ArrayValue(convert_array(param_value))
      [] OTHER -> StrValue(param_value)

\* None when the tool is not in the catalogue (ValueError), else the
\* name -> value pairs in schema order; extra positional values are dropped.
match_parameters_to_schema(tool_name, params, tools_list) ==
    IF ~\E i \in 1..Len(tools_list) : tools_list[i].name = tool_name THEN None
    ELSE LET tool  == tools_list[CHOOSE i \in 1..Len(tools_list) :
                                    /\ tools_list[i].name = tool_name
                                    /\ \A j \in 1..(i - 1) : tools_list[j].name # tool_name]
             props == tool.properties
             n     == Min(Len(params), Len(props))
         IN  Some([i \in 1..n |->
                    [name |-> props[i].name,
                     value |-> convert_parameter(props[i].type, params[i])]])

\* What call_tool may return: a content list of items, or some other content.
ToolResults ==
    { [has_content |-> TRUE, is_list |-> TRUE,
       items |-> << [has_text |-> TRUE, text |-> "8"] >>, repr |-> "CallToolResult"],
      [has_content |-> TRUE, is_list |-> FALSE,
       items |-> <<>>, repr |-> "content"] }

\* "Extract result content" (a one-element list is unwrapped)
normalize_result(result) ==
    IF result.has_content
    THEN IF result.is_list
         THEN [is_list |-> Len(result.items) # 1,
               items |-> [i \in 1..Len(result.items) |->
                            IF result.items[i].has_text THEN result.items[i].text
                            ELSE "str(item)"]]
         ELSE [is_list |-> FALSE, items |-> <<result.repr>>]
    ELSE [is_list |-> FALSE, items |-> <<result.repr>>]

ActionOutput(success, result, error_message, tool_call, mem, cont) ==
    [action_result |-> [success |-> success, result |-> result,
                        error_message |-> error_message, tool_call |-> tool_call],
     updated_memory |-> mem, should_continue |-> cont]

\* Variant: a failed action lets the loop go on.
failure_output_continue(mem, message) ==
    ActionOutput(FALSE, None, Some(message), None, mem, TRUE)

failure_output(mem, message) ==
    ActionOutput(FALSE, None, Some(message), None, mem, FALSE)

\* Variant: the loop goes on after the answer was written.
answer_output_continue(decision, mem) ==
    LET answer == strip(after_tag(decision.action_to_execute[1]))
    IN  ActionOutput(TRUE, Some([is_list |-> FALSE, items |-> answer]), None, None,
                     [mem EXCEPT !.final_answer = Some(answer)], TRUE)

\* Variant: the answer dispatch counts as an iteration.
answer_output_counts(decision, mem) ==
    LET answer == strip(after_tag(decision.action_to_execute[1]))
    IN  ActionOutput(TRUE, Some([is_list |-> FALSE, items |-> answer]), None, None,
                     [mem EXCEPT !.final_answer = Some(answer),
                                 !.current_iteration = @ + 1], FALSE)

\* Variant: the payload is stored as it stands after the tag, not stripped.
answer_output_unstripped(decision, mem) ==
    LET answer == after_tag(decision.action_to_execute[1])
    IN  ActionOutput(TRUE, Some([is_list |-> FALSE, items |-> answer]), None, None,
                     [mem EXCEPT !.final_answer = Some(answer)], FALSE)

\* PROVIDE_ANSWER with an answer clause: the final_answer slot is written.
answer_output(decision, mem) ==
    LET answer == strip(after_tag(decision.action_to_execute[1]))
    IN  ActionOutput(TRUE, Some([is_list |-> FALSE, items |-> answer]), None, None,
                     [mem EXCEPT !.final_answer = Some(answer)], FALSE)

\* Variant: a verified call ends the loop.
tool_success_output_verified_stops(decision, mem, call, result) ==
    LET result_value == normalize_result(result)
        memory_entry ==
            [iteration |-> mem.current_iteration + 1,
             function_name |-> call.tool_name,
             arguments |-> call.arguments,
             result |-> result_value,
             reasoning |-> IF decision.decision_type = "request_verification"
                           THEN <<decision.reasoning, "[VERIFIED]">>
                           ELSE <<decision.reasoning>>]
    IN  ActionOutput(TRUE, Some(result_value), None, Some(call),
                     [mem EXCEPT !.entries = Append(@, memory_entry),
                                 !.current_iteration = @ + 1],
                     decision.continue_iteration
                         /\ decision.decision_type # "request_verification")

\* Variant: the new entry is put at the front of the history.
tool_success_output_prepend(decision, mem, call, result) ==
    LET result_value == normalize_result(result)
        memory_entry ==
            [iteration |-> mem.current_iteration + 1,
             function_name |-> call.tool_name,
             arguments |-> call.arguments,
             result |-> result_value,
             reasoning |-> IF decision.decision_type = "request_verification"
                           THEN <<decision.reasoning, "[VERIFIED]">>
                           ELSE <<decision.reasoning>>]
    IN  ActionOutput(TRUE, Some(result_value), None, Some(call),
                     [mem EXCEPT !.entries = <<memory_entry>> \o @,
                                 !.current_iteration = @ + 1],
                     decision.continue_iteration)

\* Variant: the counter is incremented twice for one entry.
tool_success_output_counts_twice(decision, mem, call, result) ==
    LET result_value == normalize_result(result)
        memory_entry ==
            [iteration |-> mem.current_iteration + 1,
             function_name |-> call.tool_name,
             arguments |-> call.arguments,
             result |-> result_value,
             reasoning |-> IF decision.decision_type = "request_verification"
                           THEN <<decision.reasoning, "[VERIFIED]">>
                           ELSE <<decision.reasoning>>]
    IN  ActionOutput(TRUE, Some(result_value), None, Some(call),
                     [mem EXCEPT !.entries = Append(@, memory_entry),
                                 !.current_iteration = @ + 2],
                     decision.continue_iteration)

\* The tool returned: one MemoryEntry is appended and the counter incremented.
tool_success_output(decision, mem, call, result) ==
    LET result_value == normalize_result(result)
        memory_entry ==
            [iteration |-> mem.current_iteration + 1,
             function_name |-> call.tool_name,
             arguments |-> call.arguments,
             result |-> result_value,
             reasoning |-> IF decision.decision_type = "request_verification"
                           THEN <<decision.reasoning, "[VERIFIED]">>
                           ELSE <<decision.reasoning>>]
    IN  ActionOutput(TRUE, Some(result_value), None, Some(call),
                     [mem EXCEPT !.entries = Append(@, memory_entry),
                                 !.current_iteration = @ + 1],
                     decision.continue_iteration)

\* The part of execute before the call_tool await.  list_ok tells whether the
\* registry's list_tools returned.  The value is either a finished
\* ActionOutput (done) or the tool call to put in flight.
execute_begin(decision, mem, list_ok) ==
    LET is_answer == /\ decision.action_to_execute # None
                     /\ startswith(decision.action_to_execute[1], "FINAL_ANSWER:")
        is_call   == /\ decision.action_to_execute # None
                     /\ startswith(decision.action_to_execute[1], "FUNCTION_CALL:")
        unhandled == [done |-> TRUE, call |-> None,
                      out |-> failure_output(mem, "Unhandled decision type")]
        prepare   ==
            IF decision.action_to_execute = None
            THEN [done |-> TRUE, call |-> None,
                  out |-> failure_output(mem, "NoneType has no attribute startswith")]
            ELSE LET tool_call == parse_function_call(decision.action_to_execute[1])
                 IN  IF tool_call = None
                     THEN [done |-> TRUE, call |-> None,
                           out |-> failure_output(mem, "Invalid function call format")]
                     ELSE IF ~list_ok
                     THEN [done |-> TRUE, call |-> None,
                           out |-> failure_output(mem, "list_tools raised")]
                     ELSE LET arguments ==
                                 match_parameters_to_schema(tool_call[1].tool_name,
                                                            tool_call[1].params,
                                                            ToolCatalogue)
                          IN  IF arguments = None
                              THEN [done |-> TRUE, call |-> None,
                                    out |-> failure_output(mem, "Tool not found")]
                              ELSE [done |-> FALSE,
                                    call |-> Some([tool_name |-> tool_call[1].tool_name,
                                                   arguments |-> arguments[1]]),
                                    out |-> failure_output(mem, "unused")]
    IN  CASE decision.decision_type = "provide_answer" ->
                IF is_answer
                THEN [done |-> TRUE, call |-> None, out |-> answer_output(decision, mem)]
                ELSE unhandled
          [] decision.decision_type = "execute_tool" -> prepare
          [] decision.decision_type = "handle_error" ->
                IF truthy(decision.fallback_action)
                THEN [done |-> TRUE, call |-> None,
                      out |-> failure_output(mem, decision.reasoning)]
                ELSE unhandled
          [] decision.decision_type = "request_verification" ->
                IF is_call THEN prepare ELSE unhandled
          [] OTHER -> unhandled

-----------------------------------------------------------------------------
(* memory.py / models.py: MemoryState                                      *)

EmptyMemory == [entries |-> <<>>, current_iteration |-> 0, final_answer |-> None]

\* MemoryState.get_context_summary: one line per entry, in the order of the
\* list, made of the entry's iteration, function name, arguments and result.
get_context_summary(mem) ==
    [i \in 1..Len(mem.entries) |->
        [iteration |-> mem.entries[i].iteration,
         function_name |-> mem.entries[i].function_name,
         arguments |-> mem.entries[i].arguments,
         result |-> mem.entries[i].result]]

\* MemoryLayer.get_execution_summary: a total line, one line per entry, and
\* a final-answer line when the slot is set.
get_execution_summary(mem) ==
    <<[line |-> "total", iteration |-> mem.current_iteration]>>
    \o [i \in 1..Len(mem.entries) |->
            [line |-> "step", iteration |-> mem.entries[i].iteration]]
    \o (IF mem.final_answer # None
        THEN <<[line |-> "final", iteration |-> 0]>> ELSE <<>>)

-----------------------------------------------------------------------------
(* The texts the language model returns                                    *)

TagLine(tag, content) == <<tag, " ">> \o content

CallClause == <<"FUNCTION_CALL:", " ", "add", "|", "5", "|", "3">>
AnswerClause == <<"FINAL_ANSWER:", " ", "8">>

TextCall ==
    << TagLine("REASONING_TYPE:", <<"arithmetic">>),
       TagLine("ACTION:", CallClause),
       TagLine("CONFIDENCE:", <<"1.0">>),
       TagLine("ERROR_CHECK:", <<"false">>) >>
TextCallVerify ==
    << TagLine("VERIFICATION:", <<"check">>),
       TagLine("ACTION:", CallClause),
       TagLine("CONFIDENCE:", <<"1.0">>) >>
TextCallLow ==
    << TagLine("ACTION:", CallClause), TagLine("CONFIDENCE:", <<"0.1">>) >>
TextCallLowError ==
    << TagLine("ACTION:", CallClause), TagLine("CONFIDENCE:", <<"0.1">>),
       TagLine("ERROR_CHECK:", <<"true">>) >>
TextCallUnknown ==
    << TagLine("ACTION:", <<"FUNCTION_CALL:", " ", "foo">>),
       TagLine("CONFIDENCE:", <<"1.0">>) >>
TextAnswer ==
    << TagLine("REASONING_TYPE:", <<"final_answer">>),
       TagLine("ACTION:", AnswerClause),
       TagLine("CONFIDENCE:", <<"1.0">>) >>
TextBare ==
    << TagLine("ACTION:", <<"add">>), TagLine("CONFIDENCE:", <<"1.0">>) >>
TextNoise == << <<"hello", " ", "world">>, <<" ">> >>
TextProse == << <<"hello">>, <<"I", " ", "will", " ">> \o CallClause >>

LLMTexts == {TextCall, TextCallVerify, TextCallLow, TextCallLowError,
             TextCallUnknown, TextAnswer, TextBare, TextNoise, TextProse}

-----------------------------------------------------------------------------
(* main.py: CognitiveAgent                                                 *)

VARIABLES
    config,      \* AgentConfig: max_iterations, enable_verification, enable_fallbacks
    memory,      \* self.memory.state
    pc,          \* where run is: idle, loop, llm, decide, act, tool, finish, done, raised
    iteration,   \* the loop variable of run
    errors,      \* the local list errors of run
    perception,  \* perception_output of the current tick (None before the parse)
    decision,    \* decision_output of the current tick (None before decide)
    pending,     \* the tool call in flight (None when there is none)
    response,    \* the AgentResponse run returned (None before it returns)
    llmCalls,    \* model calls started in this run
    toolLog,     \* call_tool invocations of this run, with their outcome
    proposals,   \* what the parse gave on each tick of this run
    memAtStart,  \* memory when this run started
    cancelled,   \* a cancellation was delivered to this run (CancelledError raised)
    peer,        \* the state of a second, separately constructed agent
    returned,    \* the value returned by a function applied on its own
    response_text \* the text the model returned in this tick (None before it returns)

vars == <<config, memory, pc, iteration, errors, perception, decision, pending,
          response, llmCalls, toolLog, proposals, memAtStart, cancelled, peer,
          returned, response_text>>

Configs ==
    [max_iterations : 0..MaxIter, enable_verification : BOOLEAN,
     enable_fallbacks : BOOLEAN]

\* The state of an agent as __init__ leaves it.
NewAgent(cfg) ==
    [config |-> cfg, memory |-> EmptyMemory, pc |-> "idle", iteration |-> 0,
     errors |-> <<>>, perception |-> None, decision |-> None, pending |-> None,
     response |-> None, llmCalls |-> 0, toolLog |-> <<>>, proposals |-> <<>>,
     memAtStart |-> EmptyMemory, cancelled |-> FALSE, response_text |-> None]

\* CognitiveAgent.__init__
Init ==
    /\ config \in Configs
    /\ cancelled = FALSE
    /\ peer = NewAgent(config)
    /\ returned = None
    /\ response_text = None
    /\ memory = EmptyMemory
    /\ pc = "idle"
    /\ iteration = 0
    /\ errors = <<>>
    /\ perception = None
    /\ decision = None
    /\ pending = None
    /\ response = None
    /\ llmCalls = 0
    /\ toolLog = <<>>
    /\ proposals = <<>>
    /\ memAtStart = EmptyMemory

\* The outcome of a call_tool invocation, as the log of the run records it.
Pending == [status |-> "pending", value |-> <<>>]
Raised == [status |-> "raised", value |-> <<>>]
Returned(v) == [status |-> "returned", value |-> <<v>>]
Cancelled == [status |-> "cancelled", value |-> <<>>]

\* Variant: the error is tagged with the zero-based loop variable.
Error_zero_based(message) == [iteration |-> iteration, message |-> message]

\* f"Iteration {iteration + 1}: {message}"
Error(message) == [iteration |-> iteration + 1, message |-> message]

\* run, up to the loop: errors = [] and the list_tools call, which is outside
\* the try and either returns or raises out of run.
StartRun ==
    /\ pc \in {"idle", "done", "raised"}
    /\ errors' = <<>>
    /\ iteration' = 0
    /\ llmCalls' = 0
    /\ toolLog' = <<>>
    /\ proposals' = <<>>
    /\ memAtStart' = memory
    /\ perception' = None
    /\ decision' = None
    /\ response' = None
    /\ \E list_ok \in BOOLEAN : pc' = IF list_ok THEN "loop" ELSE "raised"
    /\ cancelled' = FALSE
    /\ response_text' = None
    /\ UNCHANGED <<peer, returned, config, memory, pending>>

\* Variant: the loop runs one iteration too many.
BeginTick_one_more ==
    /\ pc = "loop"
    /\ iteration <= config.max_iterations
    /\ llmCalls' = llmCalls + 1
    /\ perception' = None
    /\ decision' = None
    /\ pc' = "llm"
    /\ response_text' = None
    /\ UNCHANGED <<cancelled, peer, returned, config, memory, iteration, errors,
                   pending, response, toolLog, proposals, memAtStart>>

\* for iteration in range(max_iterations): a tick begins with the model call.
BeginTick ==
    /\ pc = "loop"
    /\ iteration < config.max_iterations
    /\ llmCalls' = llmCalls + 1
    /\ perception' = None
    /\ decision' = None
    /\ pc' = "llm"
    /\ response_text' = None
    /\ UNCHANGED <<cancelled, peer, returned, config, memory, iteration, errors,
                   pending, response, toolLog, proposals, memAtStart>>

\* The range is used up: the loop ends without a break.
LoopExhausted ==
    /\ pc = "loop"
    /\ iteration >= config.max_iterations
    /\ pc' = "finish"
    /\ UNCHANGED <<response_text, cancelled, peer, returned, config, memory,
                   iteration, errors, perception, decision, pending, response,
                   llmCalls, toolLog, proposals, memAtStart>>

\* Variant: the except branch records the error and does not break.
RaiseInTick_no_break(message) ==
    /\ errors' = Append(errors, Error(message))
    /\ pc' = "loop"

\* The except branch of the tick: record the error and break.
RaiseInTick(message) ==
    /\ errors' = Append(errors, Error(message))
    /\ pc' = "finish"

\* The model returned a text and perceive parses it.
LLMReturn ==
    /\ pc = "llm"
    /\ \E text \in LLMTexts :
          LET p == parse_llm_response(text)
          IN  /\ proposals' = Append(proposals, p)
              /\ response_text' = Some(text)
              /\ IF p = None
                 THEN /\ RaiseInTick("Could not parse action from LLM response")
                      /\ UNCHANGED perception
                 ELSE /\ perception' = p
                      /\ pc' = "decide"
                      /\ UNCHANGED errors
    /\ UNCHANGED <<cancelled, peer, returned, config, memory, iteration,
                   decision, pending, response, llmCalls, toolLog, memAtStart>>

\* The deadline of asyncio.wait_for fires: the model call is abandoned and
\* TimeoutError is raised into the tick.
LLMTimeout ==
    /\ pc = "llm"
    /\ RaiseInTick("LLM generation exceeded timeout")
    /\ UNCHANGED <<response_text, cancelled, peer, returned, config, memory,
                   iteration, perception, decision, pending, response, llmCalls,
                   toolLog, proposals, memAtStart>>

\* The model call raised.
LLMRaise ==
    /\ pc = "llm"
    /\ RaiseInTick("LLM error")
    /\ UNCHANGED <<response_text, cancelled, peer, returned, config, memory,
                   iteration, perception, decision, pending, response, llmCalls,
                   toolLog, proposals, memAtStart>>

\* Variant: the should_execute check is missing and every decision is dispatched.
Decide_no_check ==
    /\ pc = "decide"
    /\ decision' = Some(decide(config, perception[1], memory, config.max_iterations))
    /\ pc' = "act"
    /\ UNCHANGED <<response_text, cancelled, peer, returned, config, memory,
                   iteration, errors, perception, pending, response, llmCalls,
                   toolLog, proposals, memAtStart>>

\* decide, and the "should we stop" check that follows it.
Decide ==
    /\ pc = "decide"
    /\ LET d == decide(config, perception[1], memory, config.max_iterations)
       IN  /\ decision' = Some(d)
           /\ IF ~d.should_execute
              THEN /\ errors' = Append(errors, Error("Action blocked by decision layer"))
                   /\ pc' = "finish"
              ELSE /\ pc' = "act"
                   /\ UNCHANGED errors
    /\ UNCHANGED <<response_text, cancelled, peer, returned, config, memory,
                   iteration, perception, pending, response, llmCalls, toolLog,
                   proposals, memAtStart>>

\* Variant: an unsuccessful result is not recorded.
AfterExecute_silent(out) ==
    /\ memory' = out.updated_memory
    /\ errors' = errors
    /\ IF out.should_continue
       THEN /\ pc' = "loop"
            /\ iteration' = iteration + 1
       ELSE /\ pc' = "finish"
            /\ UNCHANGED iteration

\* Lines 162-174 of run: take the returned memory, record a failure, and
\* either break or go to the next iteration.
AfterExecute(out) ==
    /\ memory' = out.updated_memory
    /\ errors' = IF out.action_result.success THEN errors
                 ELSE Append(errors, Error(out.action_result.error_message[1]))
    /\ IF out.should_continue
       THEN /\ pc' = "loop"
            /\ iteration' = iteration + 1
       ELSE /\ pc' = "finish"
            /\ UNCHANGED iteration

\* Variant: the tool call is started but not awaited, and the loop goes on.
Dispatch_no_await ==
    /\ pc = "act"
    /\ \E list_ok \in BOOLEAN :
          LET b == execute_begin(decision[1], memory, list_ok)
          IN  IF b.done
              THEN /\ AfterExecute(b.out)
                   /\ UNCHANGED <<pending, toolLog>>
              ELSE /\ pending' = b.call
                   /\ toolLog' = Append(toolLog, [call |-> b.call[1], outcome |-> Pending])
                   /\ pc' = "loop"
                   /\ iteration' = iteration + 1
                   /\ UNCHANGED <<memory, errors>>
    /\ UNCHANGED <<response_text, cancelled, peer, returned, config, perception,
                   decision, response, llmCalls, proposals, memAtStart>>

\* execute up to its call_tool await (or to its return when no tool is called).
Dispatch ==
    /\ pc = "act"
    /\ \E list_ok \in BOOLEAN :
          LET b == execute_begin(decision[1], memory, list_ok)
          IN  IF b.done
              THEN /\ AfterExecute(b.out)
                   /\ UNCHANGED <<pending, toolLog>>
              ELSE /\ pending' = b.call
                   /\ toolLog' = Append(toolLog, [call |-> b.call[1], outcome |-> Pending])
                   /\ pc' = "tool"
                   /\ UNCHANGED <<memory, errors, iteration>>
    /\ UNCHANGED <<response_text, cancelled, peer, returned, config, perception,
                   decision, response, llmCalls, proposals, memAtStart>>

\* call_tool returned: the rest of execute and lines 162-174 of run.
ToolReturn ==
    /\ pc = "tool"
    /\ \E result \in ToolResults :
          /\ toolLog' = [toolLog EXCEPT ![Len(toolLog)].outcome = Returned(normalize_result(result))]
          /\ AfterExecute(tool_success_output(decision[1], memory, pending[1], result))
    /\ pending' = None
    /\ UNCHANGED <<response_text, cancelled, peer, returned, config, perception,
                   decision, response, llmCalls, proposals, memAtStart>>

\* Variant: a raising call is invoked again.
ToolRaise_retry ==
    /\ pc = "tool"
    /\ toolLog' = Append([toolLog EXCEPT ![Len(toolLog)].outcome = Raised],
                         [call |-> pending[1], outcome |-> Pending])
    /\ UNCHANGED <<pc, pending, memory, errors, iteration>>
    /\ UNCHANGED <<response_text, cancelled, peer, returned, config, perception,
                   decision, response, llmCalls, proposals, memAtStart>>

\* call_tool raised: the except branch of execute and lines 162-174 of run.
ToolRaise ==
    /\ pc = "tool"
    /\ toolLog' = [toolLog EXCEPT ![Len(toolLog)].outcome = Raised]
    /\ AfterExecute(failure_output(memory, "tool raised"))
    /\ pending' = None
    /\ UNCHANGED <<response_text, cancelled, peer, returned, config, perception,
                   decision, response, llmCalls, proposals, memAtStart>>

\* The task running run is cancelled while it awaits the model or the tool:
\* asyncio raises CancelledError at the await.  CancelledError is a
\* BaseException, so none of the "except Exception" handlers (perception.py
\* 238, action.py 277 and 380, main.py 176) catches it and it leaves run.
Cancel ==
    /\ pc \in {"llm", "tool"}
    /\ cancelled' = TRUE
    /\ toolLog' = IF pc = "tool"
                  THEN [toolLog EXCEPT ![Len(toolLog)].outcome = Cancelled]
                  ELSE toolLog
    /\ pending' = None
    /\ pc' = "raised"
    /\ UNCHANGED <<response_text, peer, returned, config, memory, iteration,
                   errors, perception, decision, response, llmCalls, proposals,
                   memAtStart>>

\* "Prepare final response" and return.
Finish ==
    /\ pc = "finish"
    /\ response' = Some([success |-> memory.final_answer # None /\ Len(errors) = 0,
                         final_answer |-> memory.final_answer,
                         total_iterations |-> memory.current_iteration,
                         execution_summary |-> get_execution_summary(memory),
                         errors |-> errors])
    /\ pc' = "done"
    /\ UNCHANGED <<response_text, cancelled, peer, returned, config, memory,
                   iteration, errors, perception, decision, pending, llmCalls,
                   toolLog, proposals, memAtStart>>

\* The variables of the running agent as a record (the shape of peer).
AgentState ==
    [config |-> config, memory |-> memory, pc |-> pc, iteration |-> iteration,
     errors |-> errors, perception |-> perception, decision |-> decision,
     pending |-> pending, response |-> response, llmCalls |-> llmCalls,
     toolLog |-> toolLog, proposals |-> proposals, memAtStart |-> memAtStart,
     cancelled |-> cancelled, response_text |-> response_text]

\* Variant: one memory for the whole process, shared by every agent.
MemoryOf_global(own, current) == current

\* The memory an agent works on: the MemoryLayer its __init__ constructed,
\* whose MemoryState fields come from default factories.
MemoryOf(own, current) == own

\* Control passes from the running agent to the other one (the two runs are
\* tasks of one event loop, or two threads): the other agent continues from
\* where it stopped, on its own state.
Switch ==
    /\ peer' = AgentState
    /\ config' = peer.config
    /\ memory' = MemoryOf(peer.memory, memory)
    /\ pc' = peer.pc
    /\ iteration' = peer.iteration
    /\ errors' = peer.errors
    /\ perception' = peer.perception
    /\ decision' = peer.decision
    /\ pending' = peer.pending
    /\ response' = peer.response
    /\ llmCalls' = peer.llmCalls
    /\ toolLog' = peer.toolLog
    /\ proposals' = peer.proposals
    /\ memAtStart' = peer.memAtStart
    /\ cancelled' = peer.cancelled
    /\ response_text' = peer.response_text
    /\ UNCHANGED returned

Next ==
    \/ StartRun
    \/ BeginTick
    \/ LoopExhausted
    \/ LLMReturn
    \/ LLMTimeout
    \/ LLMRaise
    \/ Decide
    \/ Dispatch
    \/ ToolReturn
    \/ ToolRaise
    \/ Cancel
    \/ Finish

Spec == Init /\ [][Next]_vars

\* -------- two separately constructed agents, their steps interleaved --------

TwoAgentConfig ==
    [max_iterations |-> 1, enable_verification |-> TRUE, enable_fallbacks |-> TRUE]

InitTwoAgents == Init /\ config = TwoAgentConfig

NextTwoAgents == Next \/ Switch

TwoAgentSpec == InitTwoAgents /\ [][NextTwoAgents]_vars

-----------------------------------------------------------------------------
(* decide as a function of its inputs: every proposal, memory and limit    *)

Confidences == {0, 10, 29, 30, 49, 50, 59, 60, 80, 100}

Proposals ==
    [reasoning_type : {"logic"},
     proposed_action : {CallClause, <<"FUNCTION_CALL:", " ", "foo">>, AnswerClause},
     confidence : Confidences,
     requires_verification : BOOLEAN,
     error_detected : BOOLEAN]

EntryOf(name, i) ==
    [iteration |-> i, function_name |-> <<name>>, arguments |-> <<>>,
     result |-> [is_list |-> FALSE, items |-> <<"8">>],
     reasoning |-> <<"executing_tool">>]

\* Memories with 0..MaxIter+1 entries, the counter equal to their number.
MemoryStates ==
    { [entries |-> [i \in 1..n |-> EntryOf(name, i)],
       current_iteration |-> n, final_answer |-> fa] :
         n \in 0..(MaxIter + 1), name \in {"add", "sqrt"},
         fa \in {None, Some(<<"8">>)} }

InitDecide ==
    /\ config \in Configs
    /\ cancelled = FALSE
    /\ peer = NewAgent(config)
    /\ returned = None
    /\ response_text = None
    /\ memory \in MemoryStates
    /\ perception \in {Some(p) : p \in Proposals}
    /\ pc = "decide"
    /\ iteration = 0
    /\ errors = <<>>
    /\ decision = None
    /\ pending = None
    /\ response = None
    /\ llmCalls = 1
    /\ toolLog = <<>>
    /\ proposals = <<perception>>
    /\ memAtStart = memory

DecideSpec == InitDecide /\ [][Decide]_vars

\* -------- should_continue on its own: every decision, every memory --------

DecisionTypes ==
    {"execute_tool", "provide_answer", "request_verification", "handle_error",
     "continue_reasoning"}

DecisionOutputs ==
    [decision_type : DecisionTypes,
     should_execute : BOOLEAN,
     action_to_execute : {None, Some(CallClause)},
     reasoning : {"executing_tool"},
     continue_iteration : BOOLEAN,
     fallback_action : {None, Some(<<>>), Some(AnswerClause)}]

InitShouldContinue ==
    /\ config \in {c \in Configs : c.max_iterations = 0}
    /\ cancelled = FALSE
    /\ peer = NewAgent(config)
    /\ returned = None
    /\ response_text = None
    /\ memory \in MemoryStates
    /\ perception = None
    /\ decision \in {Some(d) : d \in DecisionOutputs}
    /\ pc = "apply"
    /\ iteration = 0
    /\ errors = <<>>
    /\ pending = None
    /\ response = None
    /\ llmCalls = 0
    /\ toolLog = <<>>
    /\ proposals = <<>>
    /\ memAtStart = memory

ApplyShouldContinue ==
    /\ pc = "apply"
    /\ returned' = Some(should_continue(decision[1], memory))
    /\ pc' = "applied"
    /\ UNCHANGED <<config, memory, iteration, errors, perception, decision,
                   pending, response, llmCalls, toolLog, proposals, memAtStart,
                   cancelled, peer, response_text>>

ShouldContinueSpec == InitShouldContinue /\ [][ApplyShouldContinue]_vars

\* -------- execute on its own: every decision kind, every action shape --------

UnknownToolClause == <<"FUNCTION_CALL:", " ", "foo">>
PrefixedCallClause ==
    <<"FUNCTION_CALL:", " ", "TOOL_USE:", " ", "add", "|", "5", "|", "3">>

DispatchDecisions ==
    [decision_type : DecisionTypes,
     should_execute : {TRUE},
     action_to_execute : {None, Some(CallClause), Some(PrefixedCallClause),
                          Some(UnknownToolClause), Some(AnswerClause)},
     reasoning : {"executing_tool"},
     continue_iteration : BOOLEAN,
     fallback_action : {None, Some(AnswerClause)}]

InitDispatch ==
    /\ config \in {c \in Configs : c.max_iterations = 1}
    /\ cancelled = FALSE
    /\ peer = NewAgent(config)
    /\ returned = None
    /\ response_text = None
    /\ memory \in MemoryStates
    /\ perception = None
    /\ decision \in {Some(d) : d \in DispatchDecisions}
    /\ pc = "act"
    /\ iteration = 0
    /\ errors = <<>>
    /\ pending = None
    /\ response = None
    /\ llmCalls = 1
    /\ toolLog = <<>>
    /\ proposals = <<>>
    /\ memAtStart = memory

NextDispatch == Dispatch \/ ToolReturn \/ ToolRaise

DispatchSpec == InitDispatch /\ [][NextDispatch]_vars
\* -------- the parse on its own: every short text over a pool of lines --------

BareCall == <<"add", "|", "5", "|", "3">>

ParseLines ==
    { TagLine("ACTION:", CallClause),
      TagLine("ACTION:", AnswerClause),
      <<" ">> \o TagLine("ACTION:", CallClause) \o <<" ">>,
      TagLine("ACTION:", <<"add">>),
      TagLine("ACTION:", BareCall),
      <<"ACTION:">>,
      TagLine("VERIFICATION:", <<"check">>),
      <<"VERIFICATION:">>,
      <<"please", " ", "VERIFICATION:", " ", "check">>,
      TagLine("CONFIDENCE:", <<"1.5">>),
      TagLine("CONFIDENCE:", <<"-0.2">>),
      TagLine("CONFIDENCE:", <<"0.5">>),
      TagLine("CONFIDENCE:", <<"high">>),
      <<"CONFIDENCE:">>,
      TagLine("ERROR_CHECK:", <<"true">>),
      <<"I", " ", "will", " ">> \o CallClause,
      <<"so", " ">> \o AnswerClause \o <<" ">>,
      <<"both", " ", "FINAL_ANSWER:", " ", "8", " ", "FUNCTION_CALL:", " ", "add">>,
      <<"twice", " ", "FUNCTION_CALL:", " ", "add", " ", "FUNCTION_CALL:", " ", "foo">>,
      <<"hello">>,
      <<" ">> }

\* response_text.split('\n') of the texts of one or two lines
ParseTexts == {<<a>> : a \in ParseLines} \cup {<<a, b>> : a, b \in ParseLines}

InitParse ==
    /\ config \in {c \in Configs : c.max_iterations = MaxIter}
    /\ cancelled = FALSE
    /\ peer = NewAgent(config)
    /\ returned = None
    /\ response_text \in {Some(t) : t \in ParseTexts}
    /\ memory \in {m \in MemoryStates : m.final_answer = None}
    /\ perception = None
    /\ decision = None
    /\ pc = "llm"
    /\ iteration = 0
    /\ errors = <<>>
    /\ pending = None
    /\ response = None
    /\ llmCalls = 1
    /\ toolLog = <<>>
    /\ proposals = <<>>
    /\ memAtStart = memory

\* perceive, once the model's text is there: the parse of that text.
ParseText ==
    /\ pc = "llm"
    /\ response_text # None
    /\ LET p == parse_llm_response(response_text[1])
       IN  /\ proposals' = Append(proposals, p)
           /\ IF p = None
              THEN /\ RaiseInTick("Could not parse action from LLM response")
                   /\ UNCHANGED perception
              ELSE /\ perception' = p
                   /\ pc' = "decide"
                   /\ UNCHANGED errors
    /\ UNCHANGED <<response_text, cancelled, peer, returned, config, memory,
                   iteration, decision, pending, response, llmCalls, toolLog,
                   memAtStart>>

NextParse == ParseText \/ Decide

ParseSpec == InitParse /\ [][NextParse]_vars
\* -------- the array coercion on its own: a call of add_list(numbers) --------

ArrayCatalogue ==
    << [name |-> <<"add_list">>,
        properties |-> << [name |-> "numbers", type |-> "array"] >>] >>

MaxItems == 3

\* The element texts, joined by a separator.
RECURSIVE Join(_, _)
Join(xs, sep) ==
    IF xs = <<>> THEN <<>>
    ELSE IF Len(xs) = 1 THEN <<xs[1]>>
    ELSE <<xs[1]>> \o sep \o Join(Tail(xs), sep)

\* "[1, 2, 3]", "1,2,3" and "{'x': [1,2,3]}"
BracketForm(xs) == <<"[">> \o Join(xs, <<",", " ">>) \o <<"]">>
BareForm(xs) == Join(xs, <<",">>)
KeyedForm(xs) ==
    <<"{", "'", "x", "'", ":", " ", "[">> \o Join(xs, <<",">>) \o <<"]", "}">>

ItemSeqs == UNION {[1..n -> {"1", "2", "3"}] : n \in 0..MaxItems}

ArrayTexts ==
    {BracketForm(xs) : xs \in ItemSeqs} \cup {BareForm(xs) : xs \in ItemSeqs}
       \cup {KeyedForm(xs) : xs \in ItemSeqs}
       \cup { <<"[", "'", "1", "'", ",", "\"", "2", "\"", "]">>,
              <<"[", "1.5", ",", "abc", ",", "2", "]">>,
              <<"numbers", "=", "1", ",", "2">>,
              <<"[", "[", "1", ",", "2", "]", ",", "3", "]">>,
              <<"{", "'", "x", "'", ":", " ", "1", "}">> }

ArrayCall(text) == <<"FUNCTION_CALL:", " ", "add_list", "|">> \o text

InitArray ==
    /\ config \in {c \in Configs : c.max_iterations = 1}
    /\ cancelled = FALSE
    /\ peer = NewAgent(config)
    /\ returned = None
    /\ response_text = None
    /\ memory = EmptyMemory
    /\ perception = None
    /\ decision \in {Some([decision_type |-> "execute_tool", should_execute |-> TRUE,
                           action_to_execute |-> Some(ArrayCall(t)),
                           reasoning |-> "executing_tool",
                           continue_iteration |-> TRUE,
                           fallback_action |-> None]) : t \in ArrayTexts}
    /\ pc = "match"
    /\ iteration = 0
    /\ errors = <<>>
    /\ pending = None
    /\ response = None
    /\ llmCalls = 1
    /\ toolLog = <<>>
    /\ proposals = <<>>
    /\ memAtStart = memory

\* The call clause is split into name and positional values, and these are
\* matched to the schema of the tool.
ApplyMatch ==
    /\ pc = "match"
    /\ LET call == parse_function_call(decision[1].action_to_execute[1])
       IN  returned' = match_parameters_to_schema(call[1].tool_name, call[1].params,
                                                  ArrayCatalogue)
    /\ pc' = "matched"
    /\ UNCHANGED <<config, memory, iteration, errors, perception, decision,
                   pending, response, llmCalls, toolLog, proposals, memAtStart,
                   cancelled, peer, response_text>>

ArraySpec == InitArray /\ [][ApplyMatch]_vars



-----------------------------------------------------------------------------
(* Properties                                                              *)

Decided == decision # None
Proposal == perception[1]
TheDecision == decision[1]
IsCall(p) == startswith(p.proposed_action, "FUNCTION_CALL:")
LastError == errors[Len(errors)]
LastTool == toolLog[Len(toolLog)]
Eight == [is_list |-> FALSE, items |-> <<"8">>]
AddFiveThree == [tool_name |-> <<"add">>,
                 arguments |-> << [name |-> "a", value |-> IntValue(5)],
                                  [name |-> "b", value |-> IntValue(3)] >>]

\* C1: decide never returns a decision of kind execute_tool for a proposal
\* whose confidence is below 0.3, whatever the memory, the limit and the
\* enable_verification / enable_fallbacks flags.
C1_NoExecuteToolBelowThreshold ==
    (Decided /\ Proposal.confidence < ConfidenceReject)
        => TheDecision.decision_type # "execute_tool"

\* C2: whenever memory.current_iteration >= max_iterations, decide returns
\* provide_answer with continue_loop = false and the best-effort answer
\* action, whatever the proposal is; the decision is executable, so the
\* orchestrator goes on to dispatch it.
C2_CeilingForcesAnswer ==
    (pc # "decide" /\ memory.current_iteration >= config.max_iterations)
        => /\ pc = "act"
           /\ Decided
           /\ TheDecision.decision_type = "provide_answer"
           /\ TheDecision.continue_iteration = FALSE
           /\ TheDecision.action_to_execute = Some(LimitAnswer)
           /\ TheDecision.should_execute

C2_Witness ==
    /\ pc = "act"
    /\ memory.current_iteration >= config.max_iterations
    /\ IsCall(Proposal)
    /\ Proposal.confidence = 100
    /\ TheDecision.decision_type = "provide_answer"

\* C3: below the ceiling, a tool proposal with confidence below 0.3 is
\* rejected (handle_error, should_execute = false) whatever its other flags,
\* and no tool call is in flight in a tick whose proposal has confidence
\* below 0.3.
C3_LowConfidenceRejected ==
    (perception # None /\ IsCall(Proposal) /\ Proposal.confidence < ConfidenceReject)
        => /\ pc # "tool"
           /\ (Decided /\ TheDecision.reasoning # "iteration_limit")
                => /\ TheDecision.decision_type = "handle_error"
                   /\ ~TheDecision.should_execute

\* The premise of the two-tick scenario: the run started from empty memory,
\* the first proposal was add|5|3 at confidence 1.0, every registry call
\* returned 8, the second proposal was the answer 8, and run has returned.
TwoTickScenario ==
    /\ pc = "done"
    /\ memAtStart = EmptyMemory
    /\ Len(proposals) = 2
    /\ proposals[1] # None /\ proposals[2] # None
    /\ proposals[1][1].proposed_action = CallClause
    /\ proposals[1][1].confidence = 100
    /\ proposals[2][1].proposed_action = AnswerClause
    /\ \A i \in 1..Len(toolLog) : toolLog[i].outcome = Returned(Eight)

\* C4: in the two-tick scenario the tool is invoked exactly once, with
\* a = 5 and b = 3, memory gains exactly one entry, and the response has
\* success = true, final_answer = 8, total_iterations = 1 and no errors.
C4_TwoTickSuccess ==
    TwoTickScenario
        => /\ Len(toolLog) = 1
           /\ toolLog[1].call = AddFiveThree
           /\ Len(memory.entries) = 1
           /\ memory.entries[1].function_name = <<"add">>
           /\ memory.entries[1].result = Eight
           /\ response[1].success
           /\ response[1].final_answer = Some(<<"8">>)
           /\ response[1].total_iterations = 1
           /\ response[1].errors = <<>>

C4_Witness == TwoTickScenario /\ response[1].success /\ Len(toolLog) = 1

AllNoise == proposals # <<>> /\ \A i \in 1..Len(proposals) : proposals[i] = None

\* C6 as stated: with unparseable output on every iteration the run performs
\* max_iterations ticks and ends through the iteration-ceiling branch of
\* decide with a best-effort final answer.
C6_NoiseRunsToCeiling ==
    (pc = "done" /\ AllNoise)
        => /\ llmCalls = config.max_iterations
           /\ Decided
           /\ TheDecision.reasoning = "iteration_limit"
           /\ response[1].final_answer # None

\* C6 amended: with unparseable output the run performs exactly one tick;
\* the parse failure is recorded for iteration 1, decide is never called (no
\* ceiling branch), memory is left as it was and the response has
\* success = false.
C6_NoiseEndsRunAtFirstTick ==
    AllNoise
        => /\ pc \in {"finish", "done"}
           /\ llmCalls = 1
           /\ Len(proposals) = 1
           /\ ~Decided
           /\ errors = << [iteration |-> 1,
                           message |-> "Could not parse action from LLM response"] >>
           /\ toolLog = <<>>
           /\ memory = memAtStart
           /\ pc = "done" => /\ ~response[1].success
                             /\ response[1].final_answer = memAtStart.final_answer

C6_Witness == pc = "done" /\ AllNoise /\ config.max_iterations >= 2

\* C7: every run with at least one tick that returns success = false returns
\* a non-empty errors list, also when all max_iterations ticks were
\* successful tool calls.
C7_FailureHasErrors ==
    (pc = "done" /\ llmCalls >= 1 /\ ~response[1].success)
        => response[1].errors # <<>>

InRun == pc \in {"loop", "llm", "decide", "act", "tool", "finish"}

\* The number of steps a run can still take: six per iteration left, less
\* the ones of the current tick that are already behind.
StepsLeft ==
    6 * (config.max_iterations - iteration)
    + CASE pc = "loop"   -> 6
        [] pc = "llm"    -> 5
        [] pc = "decide" -> 4
        [] pc = "act"    -> 3
        [] pc = "tool"   -> 2
        [] pc = "finish" -> 1
        [] OTHER         -> 0 - 6 * (config.max_iterations - iteration)

\* C8: a run makes at most max_iterations model calls and at most
\* max_iterations tool invocations, and it terminates: every step of a run
\* (each external call returning or raising) strictly decreases the number of
\* steps left, which is never negative, until run returns.
C8_RunTerminatesWithinLimit ==
    [][/\ llmCalls' <= config.max_iterations
       /\ Len(toolLog') <= config.max_iterations
       /\ InRun => (StepsLeft' < StepsLeft /\ StepsLeft' >= 0)]_vars

C8_Witness ==
    /\ pc = "done"
    /\ config.max_iterations = MaxIter
    /\ llmCalls = MaxIter
    /\ Len(toolLog) = MaxIter

ExceptionMessages ==
    {"Could not parse action from LLM response", "LLM generation exceeded timeout",
     "LLM error", "tool raised", "list_tools raised", "Tool not found"}

\* C9: an exception raised during a tick is recorded in errors with that
\* tick's iteration number and ends the run: no later model call is made
\* in the run, run returns, and the response has success = false.
C9_ExceptionEndsRun ==
    (errors # <<>> /\ LastError.message \in ExceptionMessages)
        => /\ pc \in {"finish", "done"}
           /\ LastError.iteration = llmCalls
           /\ LastError.iteration = iteration + 1
           /\ Len(errors) = 1
           /\ pc = "done" => /\ ~response[1].success
                             /\ response[1].errors = errors

C9_Witness ==
    /\ pc = "done"
    /\ errors # <<>>
    /\ LastError.message = "LLM generation exceeded timeout"
    /\ LastError.iteration = 2

\* C10: when decide returns should_execute = false the run ends without a
\* dispatch: no tool is invoked in that tick, memory is what the earlier
\* ticks left, the block is recorded for that iteration, and the response
\* has success = false.
C10_BlockedEndsRunWithoutDispatch ==
    (Decided /\ ~TheDecision.should_execute)
        => /\ pc \in {"finish", "done"}
           /\ pending = None
           /\ Len(toolLog) = llmCalls - 1
           /\ \A i \in 1..Len(toolLog) : toolLog[i].outcome.status = "returned"
           /\ Len(memory.entries) = Len(memAtStart.entries) + Len(toolLog)
           /\ memory.current_iteration = memAtStart.current_iteration + Len(toolLog)
           /\ memory.final_answer = memAtStart.final_answer
           /\ errors = << [iteration |-> llmCalls,
                           message |-> "Action blocked by decision layer"] >>
           /\ pc = "done" => ~response[1].success

C10_Witness ==
    /\ pc = "done"
    /\ Decided /\ ~TheDecision.should_execute
    /\ llmCalls = 2
    /\ Len(memory.entries) = 1

\* C11: a cancellation delivered while the model call or the tool call is
\* in flight aborts the call and takes the run to DONE(error): run returns
\* a response with success = false, the cancellation recorded, and the
\* memory accumulated so far.
C11_CancelEndsInDoneError ==
    cancelled
        => /\ pending = None
           /\ pc \in {"finish", "done"}
           /\ errors # <<>>
           /\ pc = "done" => /\ response # None
                             /\ ~response[1].success
                             /\ response[1].total_iterations = memory.current_iteration

\* The deadline steps of the program: the only await that is given a
\* timeout is the model call (asyncio.wait_for in _generate_with_timeout).
DeadlineFires == LLMTimeout

\* C12: both suspension points are guarded by a timeout: whenever the model
\* call or the tool call is in flight, a deadline is armed that ends the
\* wait, so the run cannot wait forever for a call that never responds.
C12_SuspensionPointsHaveDeadline ==
    pc \in {"llm", "tool"} => ENABLED DeadlineFires

\* C13: at the start of every run, also of a second run on an agent that
\* has already completed one, the memory is empty: no entries,
\* current_iteration = 0 and final_answer unset.
C13_MemoryEmptyAtRunStart ==
    InRun => memAtStart = EmptyMemory

\* C14: two runs executed by two separately constructed agents, their ticks
\* interleaved in any order, never affect each other: a step of the running
\* agent leaves the memory of the other agent as it was, and when control
\* passes to the other agent each of the two finds its own memory unchanged.
C14_RunsDoNotInterfere ==
    [][\/ peer'.memory = peer.memory
       \/ /\ peer'.memory = memory
          /\ memory' = peer.memory]_vars

\* Both agents have worked and their memories differ: one holds an entry,
\* the other an answer.
C14_Witness ==
    /\ memory.entries # <<>>
    /\ peer.memory.entries = <<>>
    /\ peer.memory.final_answer # None
    /\ toolLog # <<>>
    /\ peer.response # None

\* C15: within one run the final_answer slot is written at most once: only
\* the dispatch of a provide_answer decision changes it, that dispatch ends
\* the loop, and no later step of the run (building the response) changes
\* the memory.
C15_FinalAnswerWrittenOnce ==
    [][/\ (pc = "act" /\ TheDecision.decision_type = "provide_answer")
             => pc' = "finish"
       /\ memory'.final_answer # memory.final_answer
             => (pc = "act" /\ TheDecision.decision_type = "provide_answer")
       /\ pc = "finish" => (pc' = "done" /\ memory' = memory)]_vars

C15_Witness ==
    /\ pc = "done"
    /\ Decided
    /\ TheDecision.decision_type = "provide_answer"
    /\ memAtStart.final_answer = None
    /\ memory.final_answer = Some(<<"8">>)
    /\ response[1].final_answer = Some(<<"8">>)

\* C16: should_continue(decision, memory) returns false exactly when
\* continue_iteration is false, or the kind is provide_answer, or the kind is
\* handle_error with no fallback action (none, or an empty one); it returns
\* true for every other decision, whatever the memory argument.
C16_ShouldContinueTable ==
    pc = "applied"
        => /\ returned[1] =
                ~(\/ ~TheDecision.continue_iteration
                  \/ TheDecision.decision_type = "provide_answer"
                  \/ /\ TheDecision.decision_type = "handle_error"
                     /\ TheDecision.fallback_action \in {None, Some(<<>>)})
           /\ \A m \in MemoryStates : should_continue(TheDecision, m) = returned[1]

C16_Witness ==
    /\ pc = "applied"
    /\ TheDecision.decision_type = "handle_error"
    /\ TheDecision.continue_iteration
    /\ TheDecision.fallback_action = None
    /\ memory.entries # <<>>
    /\ returned = Some(FALSE)

\* The tool invocations of this run that the dispatcher has returned from.
CompletedToolCalls ==
    {i \in 1..Len(toolLog) : toolLog[i].outcome.status \in {"returned", "raised"}}

\* C17: every tool execution, whether it succeeds or fails, appends exactly
\* one MemoryEntry before the dispatcher returns: the memory holds one entry
\* more for each invocation of the run that returned or raised, and the last
\* entry records the call of the last such invocation.
C17_EveryToolExecutionAppendsEntry ==
    /\ Len(memory.entries) = Len(memAtStart.entries) + Cardinality(CompletedToolCalls)
    /\ CompletedToolCalls # {}
          => LET last == toolLog[Len(memory.entries) - Len(memAtStart.entries)]
             IN  /\ memory.entries[Len(memory.entries)].function_name = last.call.tool_name
                 /\ memory.entries[Len(memory.entries)].arguments = last.call.arguments

\* C18: a policy rejection (a handle_error decision of the confidence /
\* safety gate) is terminal for the run unless the decision carries a
\* fallback action: without a fallback the run ends, and with a fallback the
\* rejection does not end the run (while iterations are left, the loop goes on).
C18_RejectionWithFallbackGoesOn ==
    (Decided /\ TheDecision.decision_type = "handle_error"
             /\ TheDecision.reasoning = "cannot_execute")
        => IF truthy(TheDecision.fallback_action)
           THEN iteration + 1 < config.max_iterations => pc \notin {"finish", "done"}
           ELSE pc \in {"finish", "done"}

\* C19: in a run that starts from empty memory, at every call of decide
\* current_iteration is strictly less than max_iterations (at tick i at most
\* i entries exist, and the counter equals their number), so no decision of
\* such a run is the one of the iteration-ceiling branch.
C19_CeilingUnreachableFromEmptyMemory ==
    memAtStart = EmptyMemory
        => /\ pc = "decide"
                 => /\ memory.current_iteration < config.max_iterations
                    /\ memory.current_iteration = Len(memory.entries)
                    /\ Len(memory.entries) <= iteration
           /\ Decided => TheDecision.reasoning # "iteration_limit"

C19_Witness ==
    /\ memAtStart = EmptyMemory
    /\ pc = "act"
    /\ iteration = 1
    /\ memory.current_iteration = 1
    /\ TheDecision.decision_type = "execute_tool"

\* C20: a run returns success = true only if a provide_answer decision was
\* dispatched during that same run and no error was recorded, and the
\* final_answer it reports is the one written in that run, also when the
\* agent has been used for a run before.
C20_SuccessMeansAnsweredInThisRun ==
    (pc = "done" /\ response[1].success)
        => /\ Decided
           /\ TheDecision.decision_type = "provide_answer"
           /\ errors = <<>>
           /\ response[1].final_answer =
                  Some(strip(after_tag(TheDecision.action_to_execute[1])))

\* C21: in every state a run reaches, current_iteration equals the number of
\* memory entries: the counter grows by exactly one in the step that appends
\* an entry (a tool call that returned) and is changed by no other step
\* (answer dispatch, rejected decision, failed tool call, caught exception).
C21_CounterEqualsEntries ==
    [][/\ memory'.current_iteration = Len(memory'.entries)
       /\ memory'.current_iteration # memory.current_iteration
             => /\ pc = "tool"
                /\ LastTool'.outcome.status = "returned"
                /\ memory'.current_iteration = memory.current_iteration + 1
                /\ Len(memory'.entries) = Len(memory.entries) + 1]_vars

\* One entry was appended and an answer was dispatched afterwards: the
\* counter still is 1.
C21_Witness ==
    /\ pc = "done"
    /\ memory.current_iteration = 1
    /\ Len(memory.entries) = 1
    /\ memory.final_answer # None
    /\ errors = <<>>

\* The tool invocations of this run that returned without raising, in order.
ReturnedCalls == SelectSeq(toolLog, LAMBDA t : t.outcome.status = "returned")

\* C22: exactly one MemoryEntry is created per successfully dispatched tool
\* call and none otherwise: at the end of any run the number of entries
\* equals the number of tool invocations of the run that returned without
\* raising, and entry k records the tool name, the coerced arguments and the
\* normalized result of the k-th such invocation.
C22_EntriesAreReturnedCalls ==
    pc = "done"
        => /\ Len(memory.entries) = Len(ReturnedCalls)
           /\ \A k \in 1..Len(ReturnedCalls) :
                 /\ memory.entries[k].function_name = ReturnedCalls[k].call.tool_name
                 /\ memory.entries[k].arguments = ReturnedCalls[k].call.arguments
                 /\ memory.entries[k].result = ReturnedCalls[k].outcome.value[1]

\* C23: the memory history is append-only: after every step the entry
\* sequence is the previous one, or the previous one with one entry added at
\* the end (no entry is modified, removed or reordered), and the context
\* summary lists one line per entry in insertion order.
C23_HistoryAppendOnly ==
    [][/\ \/ memory'.entries = memory.entries
          \/ /\ Len(memory'.entries) = Len(memory.entries) + 1
             /\ SubSeq(memory'.entries, 1, Len(memory.entries)) = memory.entries
       /\ Len(get_context_summary(memory')) = Len(memory'.entries)
       /\ \A i \in 1..Len(memory'.entries) :
             /\ get_context_summary(memory')[i].iteration = i
             /\ get_context_summary(memory')[i].function_name =
                    memory'.entries[i].function_name
             /\ get_context_summary(memory')[i].result = memory'.entries[i].result]_vars

C23_Witness ==
    /\ pc = "loop"
    /\ Len(memory.entries) = 2
    /\ Len(toolLog) = 2
    /\ get_context_summary(memory)[2].iteration = 2

\* C24: each tick follows strict turn-taking, model call, parse, decide, act,
\* memory update, with no overlap: a proposal appears only when the model
\* call returns, a decision only in the decide step on that proposal, a tool
\* is invoked only from the act step after the decision of the same tick said
\* should_execute, memory changes only while acting on such a decision, and
\* a model call starts only from the head of the loop, when no tool call is
\* in flight and every returned call of the run is already in memory.
C24_StrictTurnTaking ==
    [][/\ llmCalls' > llmCalls
             => /\ pc = "loop" /\ pc' = "llm"
                /\ pending = None
                /\ \A i \in 1..Len(toolLog) : toolLog[i].outcome.status # "pending"
                /\ Len(memory.entries) = Len(memAtStart.entries) + Len(ReturnedCalls)
       /\ (perception' # None /\ perception' # perception)
             => (pc = "llm" /\ pc' = "decide")
       /\ (decision' # None /\ decision' # decision)
             => (pc = "decide" /\ perception # None)
       /\ Len(toolLog') > Len(toolLog)
             => /\ pc = "act" /\ pc' = "tool"
                /\ Decided /\ TheDecision.should_execute
                /\ pending' # None
       /\ memory' # memory
             => /\ pc \in {"act", "tool"}
                /\ Decided /\ TheDecision.should_execute
       /\ pending # None => pc = "tool"]_vars

\* The model call of the second tick is in flight, after the first tick's
\* tool call returned and was stored.
C24_Witness ==
    /\ pc = "llm"
    /\ llmCalls = 2
    /\ Len(toolLog) = 1
    /\ toolLog[1].outcome.status = "returned"
    /\ Len(memory.entries) = Len(memAtStart.entries) + 1

\* The decide step ran below the iteration ceiling.
BelowCeiling == Decided /\ memory.current_iteration < config.max_iterations

\* C25: below the iteration ceiling, a proposal whose action is an answer
\* clause always yields kind provide_answer with continue_iteration false and
\* the proposal's action carried verbatim, whatever its confidence, its
\* verification flag and its error flag.
C25_AnswerProposalIsTerminal ==
    (BelowCeiling /\ startswith(Proposal.proposed_action, "FINAL_ANSWER:"))
        => /\ TheDecision.decision_type = "provide_answer"
           /\ ~TheDecision.continue_iteration
           /\ TheDecision.action_to_execute = Some(Proposal.proposed_action)

\* An answer of confidence 0 with both flags set was accepted.
C25_Witness ==
    /\ BelowCeiling
    /\ Proposal.proposed_action = AnswerClause
    /\ Proposal.confidence = 0
    /\ Proposal.requires_verification
    /\ Proposal.error_detected
    /\ TheDecision.decision_type = "provide_answer"

\* C26: below the iteration ceiling, a tool proposal with the error flag set
\* is never rejected: decide returns should_execute = true, of kind
\* request_verification or execute_tool, with the proposed action, for every
\* confidence value.
C26_ErrorFlaggedNeverRejected ==
    (BelowCeiling /\ IsCall(Proposal) /\ Proposal.error_detected)
        => /\ TheDecision.should_execute
           /\ TheDecision.decision_type \in {"request_verification", "execute_tool"}
           /\ TheDecision.action_to_execute = Some(Proposal.proposed_action)

\* An error-flagged tool proposal of confidence 0 was let through.
C26_Witness ==
    /\ BelowCeiling
    /\ IsCall(Proposal)
    /\ Proposal.error_detected
    /\ Proposal.confidence = 0
    /\ TheDecision.should_execute

\* A tool proposal that passed the ceiling and the safety gate.
PassedGate == BelowCeiling /\ IsCall(Proposal) /\ TheDecision.should_execute

\* Verification was requested: explicit flag, confidence below 0.6, or error flag.
VerificationRequested ==
    \/ Proposal.requires_verification
    \/ Proposal.confidence < 60
    \/ Proposal.error_detected

\* C27: for a tool proposal that passes the ceiling and the safety gate,
\* decide returns kind request_verification whenever the proposal's
\* verification flag is set, or its confidence is below 0.6, or its error
\* flag is set, and kind execute_tool only when none of the three holds.
C27_VerificationRouting ==
    PassedGate
        => /\ VerificationRequested => TheDecision.decision_type = "request_verification"
           /\ TheDecision.decision_type = "execute_tool" => ~VerificationRequested

\* C27, amended: the routing applies when enable_verification is true; when
\* it is false every such proposal yields kind execute_tool.
C27_VerificationRoutingWhenEnabled ==
    PassedGate
        => /\ TheDecision.decision_type \in {"request_verification", "execute_tool"}
           /\ TheDecision.decision_type = "request_verification"
                 <=> (config.enable_verification /\ VerificationRequested)

\* Verification is enabled and a proposal of confidence 0.59 without flags
\* was routed to verification.
C27_Witness ==
    /\ PassedGate
    /\ config.enable_verification
    /\ Proposal.confidence = 59
    /\ ~Proposal.requires_verification
    /\ ~Proposal.error_detected
    /\ TheDecision.decision_type = "request_verification"

\* The fields of a decision the claim C28 compares.
Outcome(d) ==
    <<d.decision_type, d.should_execute, d.action_to_execute,
      d.continue_iteration, d.fallback_action>>

\* C28: a repetition match never blocks or alters the decision: for two
\* memory states with the same current_iteration, one containing a prior
\* entry for the proposed tool name and one not, decide returns the same
\* kind, should_execute, action, continue_iteration and fallback for the
\* same proposal.
C28_RepetitionDoesNotAlterDecision ==
    Decided
        => \A other \in MemoryStates :
              (/\ other.current_iteration = memory.current_iteration
               /\ check_for_repeated_action(Proposal, memory)
               /\ ~check_for_repeated_action(Proposal, other))
                  => Outcome(decide(config, Proposal, other, config.max_iterations))
                         = Outcome(TheDecision)

\* A call of add was decided on a memory that already holds a call of add,
\* below the ceiling, and a memory of the same size without one exists.
C28_Witness ==
    /\ BelowCeiling
    /\ Proposal.proposed_action = CallClause
    /\ check_for_repeated_action(Proposal, memory)
    /\ \E other \in MemoryStates :
          /\ other.current_iteration = memory.current_iteration
          /\ ~check_for_repeated_action(Proposal, other)
    /\ TheDecision.decision_type = "execute_tool"

\* C29: every decision of kind handle_error returned by decide carries a
\* non-empty fallback action, for every input and for both settings of
\* enable_fallbacks.
C29_HandleErrorCarriesFallback ==
    (Decided /\ TheDecision.decision_type = "handle_error")
        => /\ TheDecision.fallback_action # None
           /\ TheDecision.fallback_action[1] # <<>>

\* A rejection decided with enable_fallbacks off.
C29_Witness ==
    /\ Decided
    /\ TheDecision.decision_type = "handle_error"
    /\ ~config.enable_fallbacks
    /\ IsCall(Proposal)

\* C30: dispatching a provide_answer decision writes the answer payload (the
\* text after the tag, stripped) into memory's final_answer slot and returns
\* success with continue = false, no error is recorded and the loop ends,
\* while the entries and current_iteration are left unchanged and no tool
\* is invoked.
C30_AnswerDispatchFrame ==
    [][(pc = "act" /\ TheDecision.decision_type = "provide_answer")
          => /\ memory'.final_answer =
                    Some(strip(after_tag(TheDecision.action_to_execute[1])))
             /\ memory'.entries = memory.entries
             /\ memory'.current_iteration = memory.current_iteration
             /\ toolLog' = toolLog
             /\ pending' = None
             /\ errors' = errors
             /\ pc' = "finish"]_vars

\* An answer was dispatched in the tick after a tool call: the entry of the
\* tool call is still the only one.
C30_Witness ==
    /\ pc = "finish"
    /\ Decided
    /\ TheDecision.decision_type = "provide_answer"
    /\ TheDecision.reasoning = "final_answer"
    /\ memory.final_answer = Some(<<"8">>)
    /\ Len(memory.entries) = 1
    /\ Len(toolLog) = 1
    /\ memAtStart = EmptyMemory

OtherToolKind(d) ==
    [d EXCEPT !.decision_type = IF @ = "execute_tool" THEN "request_verification"
                                ELSE "execute_tool"]

\* A decision of a tool kind whose action is a call clause is being dispatched.
ToolKindDispatch ==
    /\ pc \in {"act", "tool"}
    /\ TheDecision.decision_type \in {"execute_tool", "request_verification"}
    /\ TheDecision.action_to_execute # None
    /\ startswith(TheDecision.action_to_execute[1], "FUNCTION_CALL:")

\* An ActionOutput with the reasoning of its last stored entry blanked.
WithoutReasoning(out) ==
    [out EXCEPT !.updated_memory.entries =
        [i \in 1..Len(@) |-> IF i = Len(@) THEN [@[i] EXCEPT !.reasoning = <<>>]
                             ELSE @[i]]]

\* C32: the dispatcher treats request_verification identically to
\* execute_tool: for the same action clause, memory state and registry
\* behaviour, both kinds produce the same tool invocation, the same
\* ActionResult, the same should_continue and the same resulting memory,
\* the stored entry included.
C32_VerificationDispatchedAsExecute ==
    ToolKindDispatch
        => /\ pc = "act"
                 => \A list_ok \in BOOLEAN :
                       execute_begin(TheDecision, memory, list_ok)
                           = execute_begin(OtherToolKind(TheDecision), memory, list_ok)
           /\ pc = "tool"
                 => \A result \in ToolResults :
                       tool_success_output(TheDecision, memory, pending[1], result)
                           = tool_success_output(OtherToolKind(TheDecision), memory,
                                                 pending[1], result)

\* C32, amended: the same, except that the entry stored for a
\* request_verification decision carries the decision's reasoning with the
\* mark [VERIFIED] and the one stored for execute_tool the reasoning alone.
C32_VerificationDispatchedAsExecuteButMarked ==
    ToolKindDispatch
        => /\ pc = "act"
                 => \A list_ok \in BOOLEAN :
                       execute_begin(TheDecision, memory, list_ok)
                           = execute_begin(OtherToolKind(TheDecision), memory, list_ok)
           /\ pc = "tool"
                 => \A result \in ToolResults :
                       LET out == tool_success_output(TheDecision, memory, pending[1],
                                                      result)
                           other == tool_success_output(OtherToolKind(TheDecision),
                                                        memory, pending[1], result)
                           reasoning_of(o, d) ==
                               o.updated_memory.entries[Len(o.updated_memory.entries)]
                                   .reasoning
                       IN  /\ WithoutReasoning(out) = WithoutReasoning(other)
                           /\ \A o \in {<<out, TheDecision>>,
                                        <<other, OtherToolKind(TheDecision)>>} :
                                 reasoning_of(o[1], o[2]) =
                                     IF o[2].decision_type = "request_verification"
                                     THEN <<o[2].reasoning, "[VERIFIED]">>
                                     ELSE <<o[2].reasoning>>

\* The call of a request_verification decision is in flight on a memory
\* that already holds entries.
C32_Witness ==
    /\ pc = "tool"
    /\ TheDecision.decision_type = "request_verification"
    /\ TheDecision.continue_iteration
    /\ memory.entries # <<>>
    /\ pending # None

\* C33: the dispatcher never raises: for every decision kind (handle_error,
\* an unknown tool name, a malformed action clause, a registry that raises on
\* list_tools or on the call included) execute returns a structured
\* ActionOutput to run, and every unsuccessful ActionOutput adds exactly one
\* entry, carrying its message, to the run's errors list, a successful one
\* none.
C33_DispatcherNeverRaises ==
    [][/\ pc \in {"act", "tool"} => pc' \in {"act", "tool", "loop", "finish"}
       /\ (pc = "act" /\ pc' \in {"loop", "finish"})
             => \E list_ok \in BOOLEAN :
                   LET b == execute_begin(TheDecision, memory, list_ok)
                   IN  /\ b.done
                       /\ memory' = b.out.updated_memory
                       /\ IF b.out.action_result.success
                          THEN errors' = errors
                          ELSE /\ Len(errors') = Len(errors) + 1
                               /\ LastError'.message = b.out.action_result.error_message[1]
       /\ (pc = "tool" /\ pc' \in {"loop", "finish"})
             => IF LastTool'.outcome.status = "returned"
                THEN errors' = errors
                ELSE /\ Len(errors') = Len(errors) + 1
                     /\ LastError'.message = "tool raised"]_vars

\* A handle_error decision without fallback was dispatched: the default
\* branch of execute returned a failure, which run recorded.
C33_Witness ==
    /\ pc = "finish"
    /\ TheDecision.decision_type = "handle_error"
    /\ TheDecision.fallback_action = None
    /\ Len(errors) = 1
    /\ LastError.message = "Unhandled decision type"
    /\ toolLog = <<>>

\* -------- the parse --------

TheText == response_text[1]
Parsed == response_text # None /\ proposals # <<>>
ParseResult == proposals[Len(proposals)]

\* The lines of the text that, stripped, start with the given tag.
TagLines(text, tag) == {i \in 1..Len(text) : startswith(strip(text[i]), tag)}
\* What follows the tag on a tagged line, stripped.
ContentOf(line) == strip(Tail(strip(line)))
IsClause(c) == startswith(c, "FUNCTION_CALL:") \/ startswith(c, "FINAL_ANSWER:")

\* C34: for every text with exactly one ACTION line whose content is a call
\* clause or an answer clause, the parse succeeds and the proposed action is
\* that clause, token for token.
C34_StrictPathVerbatim ==
    Parsed =>
       \A i \in 1..Len(TheText) :
          (TagLines(TheText, "ACTION:") = {i} /\ IsClause(ContentOf(TheText[i])))
             => /\ ParseResult # None
                /\ ParseResult[1].proposed_action = ContentOf(TheText[i])

\* An indented ACTION line after a prose line that holds an answer marker: the
\* call clause of the ACTION line came back as written.
C34_Witness ==
    /\ pc = "decide"
    /\ Parsed
    /\ TheText = << <<"so", " ">> \o AnswerClause \o <<" ">>,
                    <<" ">> \o TagLine("ACTION:", CallClause) \o <<" ">> >>
    /\ Proposal.proposed_action = CallClause

Markers == {"FUNCTION_CALL:", "FINAL_ANSWER:"}
\* The lines of the text that hold a call or an answer marker.
MarkerLines(text) == {i \in 1..Len(text) : contains(text[i], Markers)}
FirstOf(S) == CHOOSE i \in S : \A j \in S : i <= j
\* The clause read off a line that holds a marker: the marker (the call marker
\* when both occur), then what stands between it and its next occurrence.
BuiltFrom(line) ==
    LET l     == strip(line)
        m     == IF contains(l, {"FUNCTION_CALL:"}) THEN "FUNCTION_CALL:"
                 ELSE "FINAL_ANSWER:"
        k     == find(l, {m})
        rest  == SubSeq(l, k + 1, Len(l))
        n     == find(rest, {m})
        piece == IF n = 0 THEN rest ELSE SubSeq(rest, 1, n - 1)
    IN  <<m>> \o strip(piece)

\* C35: the parse fails exactly when the text has no ACTION line and no line
\* holding a call or answer marker; a text without ACTION line but with such
\* a line gives a proposal built from the first such line.
C35_ParseFailsOnlyWithoutClause ==
    Parsed =>
       LET noAction == TagLines(TheText, "ACTION:") = {}
           marked   == MarkerLines(TheText)
       IN  /\ (ParseResult = None) <=> (noAction /\ marked = {})
           /\ (noAction /\ marked # {})
                 => ParseResult[1].proposed_action = BuiltFrom(TheText[FirstOf(marked)])

\* No ACTION line; the second line holds both markers: the proposal is the
\* call built from that line.
C35_Witness ==
    /\ pc = "decide"
    /\ Parsed
    /\ TheText = << <<"hello">>,
                    <<"both", " ", "FINAL_ANSWER:", " ", "8", " ",
                      "FUNCTION_CALL:", " ", "add">> >>
    /\ Proposal.proposed_action = <<"FUNCTION_CALL:", "add">>

\* C37: the parse sets requires_verification exactly when some line of the
\* text starts with the VERIFICATION tag, whatever else the text holds; and
\* with verification enabled the decision for such a text is never
\* execute_tool.
C37_VerificationFlagFromText ==
    Parsed =>
       LET tagged == TagLines(TheText, "VERIFICATION:") # {}
       IN  /\ ParseResult # None => (ParseResult[1].requires_verification <=> tagged)
           /\ (Decided /\ pc \in {"act", "finish"} /\ config.enable_verification /\ tagged)
                 => TheDecision.decision_type # "execute_tool"

\* A VERIFICATION line without content before a call: the call was routed to
\* verification.
C37_Witness ==
    /\ pc = "act"
    /\ Parsed
    /\ TheText = << <<"VERIFICATION:">>, TagLine("ACTION:", CallClause) >>
    /\ config.enable_verification
    /\ Proposal.requires_verification
    /\ TheDecision.decision_type = "request_verification"

LastOf(S) == CHOOSE i \in S : \A j \in S : j <= i
\* What the claim asks of the confidence, read off the text: the value of the
\* last CONFIDENCE line brought to the nearest bound of [0, 1], the default
\* when that value is no number or there is no such line.
ExpectedConfidence(text) ==
    LET tagged == TagLines(text, "CONFIDENCE:")
    IN  IF tagged = {} THEN DefaultConfidence
        ELSE LET v == ContentOf(text[LastOf(tagged)])
             IN  IF ~is_float(v) THEN DefaultConfidence
                 ELSE IF FloatLiterals[v[1]] > 100 THEN 100
                 ELSE IF FloatLiterals[v[1]] < 0 THEN 0
                 ELSE FloatLiterals[v[1]]

\* C38: the confidence of every proposal lies in [0, 1]: a numeric CONFIDENCE
\* value outside the range is clamped to the nearest bound, a non-numeric or
\* missing one gives the default 0.8; and no CONFIDENCE line makes the parse
\* fail (a text with an action clause always parses).
C38_ConfidenceClamped ==
    Parsed =>
       /\ ParseResult # None
             => /\ ParseResult[1].confidence \in 0..100
                /\ ParseResult[1].confidence = ExpectedConfidence(TheText)
       /\ ParseResult = None
             => TagLines(TheText, "ACTION:") = {} /\ MarkerLines(TheText) = {}

\* CONFIDENCE: 1.5 after a call: the proposal carries 1.0.
C38_Witness ==
    /\ pc = "decide"
    /\ Parsed
    /\ TheText = << TagLine("ACTION:", CallClause), TagLine("CONFIDENCE:", <<"1.5">>) >>
    /\ Proposal.confidence = 100

\* The text has one ACTION line and its content is a single word, no prefix,
\* no call keyword, no separator: a bare tool name.
BareName(text) ==
    \E i \in 1..Len(text) :
       /\ TagLines(text, "ACTION:") = {i}
       /\ Len(ContentOf(text[i])) = 1
       /\ ~IsClause(ContentOf(text[i]))
       /\ ~contains(ContentOf(text[i]), {"FUNCTION_CALL", "|"})
BareContent(text) == ContentOf(text[FirstOf(TagLines(text, "ACTION:"))])

\* C36: a bare tool name on the ACTION line is wrapped as an answer clause,
\* decided as provide_answer, and ends the run in that tick with that text as
\* the final answer.
C36_BareNameEndsRunWithItsText ==
    (Parsed /\ BareName(TheText) /\ pc \notin {"llm", "decide", "raised"})
       => /\ ParseResult = Some([Proposal EXCEPT !.proposed_action =
                                    <<"FINAL_ANSWER:", " ">> \o BareContent(TheText)])
          /\ pc \in {"act", "finish", "done"}
          /\ Decided
          /\ TheDecision.decision_type = "provide_answer"
          /\ pc \in {"finish", "done"}
                => memory.final_answer = Some(BareContent(TheText))

\* -------- the array coercion --------

\* The positional value of the add_list call that was matched.
ArrayText == SubSeq(TheDecision.action_to_execute[1], 5,
                    Len(TheDecision.action_to_execute[1]))
\* The list the matched arguments carry for the parameter numbers.
Coerced == returned[1][1].value
IntsOf(xs) == ArrayValue([i \in 1..Len(xs) |-> IntValue(IntLiterals[xs[i]])])

\* C39: the array coercion gives the integer list [1, 2, 3] for "[1, 2, 3]",
\* for "1,2,3" and for "{'x': [1,2,3]}"; and so for every list of up to
\* MaxItems integers written in one of these three forms.
C39_ArrayFormsCoerceAlike ==
    pc = "matched" =>
       /\ ArrayText \in {BracketForm(<<"1", "2", "3">>), BareForm(<<"1", "2", "3">>),
                         KeyedForm(<<"1", "2", "3">>)}
             => Coerced = ArrayValue(<<IntValue(1), IntValue(2), IntValue(3)>>)
       /\ \A xs \in ItemSeqs :
             ArrayText \in {BracketForm(xs), BareForm(xs), KeyedForm(xs)}
                => Coerced = IntsOf(xs)

\* The keyed, brace-delimited text of the claim was matched and gave [1, 2, 3].
C39_Witness ==
    /\ pc = "matched"
    /\ ArrayText = <<"{", "'", "x", "'", ":", " ", "[", "1", ",", "2", ",", "3", "]", "}">>
    /\ returned = Some(<< [name |-> "numbers",
                          value |-> ArrayValue(<<IntValue(1), IntValue(2), IntValue(3)>>)] >>)

====
